---- MODULE Spec2Model ----
(***************************************************************************)
(* Expense tracker (src/app.py): the expenses table, the script run that   *)
(* every user interaction triggers (sidebar actions, add form, fetch,      *)
(* filters, metrics, chart, CSV downloads, delete controls).               *)
(*                                                                         *)
(* Text values are sequences of one-character strings, so that prefixes,   *)
(* substrings and case folding are computed and not assumed.               *)
(* Amounts are exact quantities counted in a fixed unit; the binary        *)
(* rounding of SQLite REAL / float64 sums is not represented.              *)
(***************************************************************************)
EXTENDS Integers, Sequences, FiniteSets, TLC

VARIABLES
    store,           \* table expenses: rows in rowid order
    assigned,        \* history: every rowid the table has ever held
    selected_month,  \* widget values as used by the last script run
    selected_cat,
    q,
    delete_mode,
    event,           \* the interaction that triggered the last script run
    msg,             \* st.success / st.warning of the triggered handler
    failed,          \* the storage statement of the last run raised
    exc,             \* exception that ended the last run, "none" if it completed
    df,              \* snapshot read by SELECT rowid, * in the last run
    df_filtered,
    overview,        \* Overview card of the last run
    chart,           \* Spending Breakdown card of the last run
    csv,             \* data of the "Download filtered CSV" button
    backup_csv       \* data of the sidebar "Download CSV" button

vars == <<store, assigned, selected_month, selected_cat, q, delete_mode, event,
          msg, failed, exc, df, df_filtered, overview, chart, csv, backup_csv>>

-----------------------------------------------------------------------------
(* Bounds *)

\* adds are explored while the next rowid does not exceed MaxRowid
MaxRowid == 3
\* rows of a table found at start-up in the view specification
MaxRows == 3

-----------------------------------------------------------------------------
(* Text *)

UpperChars == <<"A","B","C","D","E","F","G","H","I","J","K","L","M",
                "N","O","P","Q","R","S","T","U","V","W","X","Y","Z">>
LowerChars == <<"a","b","c","d","e","f","g","h","i","j","k","l","m",
                "n","o","p","q","r","s","t","u","v","w","x","y","z">>
DigitChars == <<"0","1","2","3","4","5","6","7","8","9">>

\* case folding of one character (re.IGNORECASE on ASCII letters)
FoldMap ==
    [c \in { UpperChars[i] : i \in 1..Len(UpperChars) } |->
        LowerChars[CHOOSE i \in 1..Len(UpperChars) : UpperChars[i] = c]]
Lower(c) == IF c \in DOMAIN FoldMap THEN FoldMap[c] ELSE c

\* x[:n]
Take(s, n) == SubSeq(s, 1, IF Len(s) < n THEN Len(s) ELSE n)

\* s.startswith(p)
StartsWith(s, p) == Len(p) <= Len(s) /\ SubSeq(s, 1, Len(p)) = p

All == <<"A","l","l">>
Food == <<"F","o","o","d">>
Bills == <<"B","i","l","l","s">>
Transport == <<"T","r","a","n","s","p","o","r","t">>
SampleNote == <<"S","a","m","p","l","e"," ","l","u","n","c","h">>
SampleAmount == 199
Lunch == <<"l","u","n","c","h">>
Bus == <<"b","u","s">>
Empty == <<>>

\* datetime.date -> "YYYY-MM-DD", the text stored in column date
Pad2(n) == <<DigitChars[((n \div 10) % 10) + 1], DigitChars[(n % 10) + 1]>>
Pad4(n) == Pad2(n \div 100) \o Pad2(n % 100)
IsoFormat(d) == Pad4(d.year) \o <<"-">> \o Pad2(d.month) \o <<"-">> \o Pad2(d.day)

-----------------------------------------------------------------------------
(* User inputs explored *)

\* values of date.today()
Today == { [year |-> 2024, month |-> 4, day |-> 1] }
\* submissions of the add form that are explored: date_input, Category
\* selectbox, number_input (min_value = 0.0) and the optional note
FormInputs ==
    { [date |-> [year |-> 2024, month |-> 3, day |-> 5], category |-> Food,
       amount |-> 2, note |-> Lunch],
      [date |-> [year |-> 2024, month |-> 4, day |-> 1], category |-> Bills,
       amount |-> 1, note |-> Empty],
      [date |-> [year |-> 2024, month |-> 3, day |-> 5], category |-> Bills,
       amount |-> 0, note |-> Lunch] }
\* values typed into "Search notes / category"
SearchTexts == { Empty, <<"L","U","N">>, <<"o">>, <<".">>, <<"(">> }
DeleteModes == {"By ID", "Select multiple", "Delete all"}

-----------------------------------------------------------------------------
(* Table expenses and its statements *)

RowIds(t) == { t[i].rowid : i \in 1..Len(t) }

MaxOf(S) == CHOOSE m \in S : \A n \in S : n <= m

\* variant: the rowid taken from the number of rows
NextRowidByCount(t) == Len(t) + 1

\* SQLite gives a row of a table without INTEGER PRIMARY KEY the rowid
\* max(rowid) + 1, and 1 when the table is empty
NextRowid(t) == IF t = <<>> THEN 1 ELSE MaxOf(RowIds(t)) + 1

\* variant: if_exists = "replace", the table is rebuilt from the one row
ToSqlReplace(t, date, category, amount, note) ==
    <<[rowid |-> 1, date |-> date, category |-> category,
       amount |-> amount, note |-> note]>>

\* DataFrame.to_sql("expenses", if_exists = "append"): one INSERT
ToSql(t, date, category, amount, note) ==
    Append(t, [rowid |-> NextRowid(t), date |-> date, category |-> category,
               amount |-> amount, note |-> note])

\* variant: WHERE rowid <= the largest targeted rowid
DeleteWhereRowidAtMost(t, ids) ==
    IF ids = {} THEN t ELSE SelectSeq(t, LAMBDA r : r.rowid > MaxOf(ids))

\* DELETE FROM expenses WHERE rowid = :rid / WHERE rowid IN (...)
DeleteWhereRowidIn(t, ids) == SelectSeq(t, LAMBDA r : r.rowid \notin ids)

\* DELETE FROM expenses
DeleteFrom(t) == <<>>

\* SELECT rowid, * FROM expenses
SelectRowidStar(t) == t

\* SELECT * FROM expenses: the declared columns only
SelectStar(t) ==
    [i \in 1..Len(t) |-> [date |-> t[i].date, category |-> t[i].category,
                          amount |-> t[i].amount, note |-> t[i].note]]

-----------------------------------------------------------------------------
(* Filters *)

\* options of the Month selectbox: "All" and every x[:7] of column date
MonthOptions(d) == {All} \cup { Take(d[i].date, 7) : i \in 1..Len(d) }

\* options of the Category selectbox: "All" and every category present
CatOptions(d) == {All} \cup { d[i].category : i \in 1..Len(d) }

\* a selectbox whose options no longer hold its value shows index 0, "All"
Selected(value, options) == IF value \in options THEN value ELSE All

\* re.compile(q): of the characters explored, "(" alone does not compile
RegexCompiles(pat) == \A i \in 1..Len(pat) : pat[i] # "("

\* re.search(q, s, re.IGNORECASE): "." matches any character, every other
\* explored character matches itself up to case
RegexSearch(pat, s) ==
    \E k \in 0..(Len(s) - Len(pat)) :
        \A j \in 1..Len(pat) :
            \/ pat[j] = "."
            \/ Lower(pat[j]) = Lower(s[k + j])

\* Series.str.contains(q, case=False, na=False)
StrContains(s, pat) == RegexSearch(pat, s)

\* the search line raises re.error whenever it runs with a pattern that
\* does not compile
SearchRaises(d, qq) == d # <<>> /\ qq # <<>> /\ ~RegexCompiles(qq)

\* variant: the year alone is compared
MonthFilterByYear(d, month) ==
    IF month # <<>> /\ month # All
    THEN SelectSeq(d, LAMBDA r : StartsWith(r.date, Take(month, 4)))
    ELSE d

MonthFilter(d, month) ==
    IF month # <<>> /\ month # All
    THEN SelectSeq(d, LAMBDA r : StartsWith(r.date, month))
    ELSE d

CatFilter(d, cat) ==
    IF cat # <<>> /\ cat # All
    THEN SelectSeq(d, LAMBDA r : r.category = cat)
    ELSE d

SearchFilter(d, qq) ==
    IF qq # <<>>
    THEN SelectSeq(d, LAMBDA r : StrContains(r.note, qq) \/ StrContains(r.category, qq))
    ELSE d

\* "Apply filters": df_filtered from a copy of df
ApplyFilters(d, month, cat, qq) ==
    IF d = <<>> THEN d
    ELSE SearchFilter(CatFilter(MonthFilter(d, month), cat), qq)

-----------------------------------------------------------------------------
(* Metrics, chart and CSV *)

RECURSIVE SumAmount(_)
\* Series.sum() of column amount
SumAmount(d) == IF d = <<>> THEN 0 ELSE d[1].amount + SumAmount(Tail(d))

\* variant: .count() in place of .sum()
GroupByCount(d) ==
    [c \in { d[i].category : i \in 1..Len(d) } |->
        Len(SelectSeq(d, LAMBDA r : r.category = c))]

\* groupby("category")["amount"].sum(): one group per category present
GroupBySum(d) ==
    [c \in { d[i].category : i \in 1..Len(d) } |->
        SumAmount(SelectSeq(d, LAMBDA r : r.category = c))]

\* characters in code-point order, for the sorted group keys
CodeOrder == <<" ", "(", "-", ".">> \o DigitChars \o UpperChars \o LowerChars
Code(c) == CHOOSE i \in 1..Len(CodeOrder) : CodeOrder[i] = c

RECURSIVE StrLess(_, _)
StrLess(a, b) ==
    IF b = <<>> THEN FALSE
    ELSE IF a = <<>> THEN TRUE
    ELSE IF a[1] = b[1] THEN StrLess(Tail(a), Tail(b))
    ELSE Code(a[1]) < Code(b[1])

\* Series.idxmax() over the groups, keys sorted: the first largest total
IdxMax(g) ==
    CHOOSE c \in DOMAIN g :
        /\ \A e \in DOMAIN g : g[e] <= g[c]
        /\ \A e \in DOMAIN g : g[e] = g[c] => (e = c \/ StrLess(c, e))

\* Overview card
Overview(filt) ==
    IF filt = <<>>
    THEN [status |-> "info", total |-> 0, transactions |-> 0, top_cat |-> <<>>]
    ELSE [status |-> "metrics", total |-> SumAmount(filt),
          transactions |-> Len(filt), top_cat |-> IdxMax(GroupBySum(filt))]

\* Spending Breakdown card
Chart(filt) ==
    IF filt = <<>>
    THEN [status |-> "nodata", category_totals |-> <<>>]
    ELSE [status |-> "pie", category_totals |-> GroupBySum(filt)]

NotRendered == [status |-> "none"]

DfColumns == <<"rowid", "date", "category", "amount", "note">>
TableColumns == <<"date", "category", "amount", "note">>

\* DataFrame.to_csv(index=False): the header, then one line per row
ToCsv(columns, rows) ==
    <<columns>> \o
    [i \in 1..Len(rows) |-> [j \in 1..Len(columns) |-> rows[i][columns[j]]]]

\* "Download filtered CSV", offered when df_filtered is not empty
FilteredCsv(filt) == IF filt = <<>> THEN <<>> ELSE ToCsv(DfColumns, filt)

\* sidebar "Download DB (CSV)"
BackupCsv(t) == ToCsv(TableColumns, SelectStar(t))

-----------------------------------------------------------------------------
(* The script run *)

NoDate == [year |-> 0, month |-> 0, day |-> 0]

Ev(kind, date, category, amount, note, ids) ==
    [kind |-> kind, date |-> date, category |-> category, amount |-> amount,
     note |-> note, ids |-> ids]

\* an interaction that carries no form values and no ids
Plain(kind) == Ev(kind, NoDate, <<>>, 0, <<>>, {})

DeleteKinds == {"delete by id", "delete selected", "delete all"}

\* variant: only negative amounts are turned away
RejectedIfNegative(amount) == amount < 0

\* the form's check "if amount <= 0: st.warning(...)"
Rejected(amount) == amount <= 0

\* variant: the fetch moved above the sidebar and the form
FetchedAtStart(atStart, afterForm) == atStart

\* the table the fetch finds: the script reads it below the sidebar and the
\* form, above the delete controls
FetchedTable(atStart, afterForm) == afterForm

\* what the last run left on the page: an exception ends the run, and the
\* widgets below the raising line are not there to be used
FormShown == ~(event.kind = "sample" /\ failed)
FiltersShown == FormShown /\ ~(event.kind = "submit" /\ failed)
ManageShown == FiltersShown /\ exc # "re.error"

\* df_filtered of a run that adds nothing, from the table as it stands
CurrentFiltered ==
    LET snap == SelectRowidStar(store)
    IN  ApplyFilters(snap, Selected(selected_month, MonthOptions(snap)),
                     Selected(selected_cat, CatOptions(snap)), q)

\* one run of the script, top to bottom, triggered by ev with the widget
\* values month, cat, qq, mode; fail: the storage statement it executes raises
Run(ev, fail, month, cat, qq, mode) ==
    LET sampleRaised == ev.kind = "sample" /\ fail
        afterSidebar ==
            IF ev.kind = "sample" /\ ~fail
            THEN ToSql(store, IsoFormat(ev.date), Food, SampleAmount, SampleNote)
            ELSE store
        accepted == ev.kind = "submit" /\ ~Rejected(ev.amount)
        formRaised == accepted /\ fail
        afterForm ==
            IF accepted /\ ~fail
            THEN ToSql(afterSidebar, IsoFormat(ev.date), ev.category, ev.amount, ev.note)
            ELSE afterSidebar
        fetched == ~sampleRaised /\ ~formRaised
        snap == SelectRowidStar(FetchedTable(store, afterForm))
        m == Selected(month, MonthOptions(snap))
        c == Selected(cat, CatOptions(snap))
        raises == fetched /\ SearchRaises(snap, qq)
        shown == fetched /\ ~raises
        filt == IF shown THEN ApplyFilters(snap, m, c, qq) ELSE <<>>
        deleting ==
            /\ shown
            /\ ev.kind \in DeleteKinds
            /\ ev.kind = "delete selected" => ev.ids # {}
        deleteRaised == deleting /\ fail
        afterDelete ==
            IF deleting /\ ~fail
            THEN IF ev.kind = "delete all"
                 THEN DeleteFrom(afterForm)
                 ELSE DeleteWhereRowidIn(afterForm, ev.ids)
            ELSE afterForm
        raised == sampleRaised \/ formRaised \/ deleteRaised
    IN  /\ store' = afterDelete
        /\ assigned' = assigned \cup RowIds(afterForm)
        /\ event' = ev
        /\ failed' = raised
        /\ exc' = IF raised THEN "OperationalError"
                  ELSE IF raises THEN "re.error" ELSE "none"
        /\ msg' =
            IF raised THEN "none"
            ELSE IF ev.kind = "sample" THEN "Added sample expense"
            ELSE IF ev.kind = "submit"
                 THEN IF accepted THEN "Added" ELSE "Amount must be positive."
            ELSE IF ~shown \/ ev.kind \notin DeleteKinds THEN "none"
            ELSE IF ev.kind = "delete by id" THEN "Deleted ID"
            ELSE IF ev.kind = "delete all" THEN "All records deleted."
            ELSE IF ev.ids # {} THEN "Deleted records" ELSE "No selection."
        /\ backup_csv' = IF ev.kind = "backup" THEN BackupCsv(store) ELSE <<>>
        /\ df' = IF fetched THEN snap ELSE <<>>
        /\ selected_month' = IF fetched THEN m ELSE month
        /\ selected_cat' = IF fetched THEN c ELSE cat
        /\ q' = qq
        /\ delete_mode' = mode
        /\ df_filtered' = filt
        /\ overview' = IF shown THEN Overview(filt) ELSE NotRendered
        /\ chart' = IF shown THEN Chart(filt) ELSE NotRendered
        /\ csv' = IF shown THEN FilteredCsv(filt) ELSE <<>>

\* the next rowid stays within the explored range
CanAdd == NextRowid(store) <= MaxRowid

\* sidebar button "Add sample expense"
RunSample ==
    /\ CanAdd
    /\ \E today \in Today, fail \in BOOLEAN :
        Run(Ev("sample", today, Food, SampleAmount, SampleNote, {}), fail,
            selected_month, selected_cat, q, delete_mode)

\* sidebar button "Download DB (CSV)"
RunBackup ==
    /\ FormShown
    /\ Run(Plain("backup"), FALSE, selected_month, selected_cat, q, delete_mode)

\* form button "Add Expense"
RunSubmit ==
    /\ FormShown
    /\ CanAdd
    /\ \E f \in FormInputs, fail \in BOOLEAN :
        /\ fail => ~Rejected(f.amount)
        /\ Run(Ev("submit", f.date, f.category, f.amount, f.note, {}), fail,
               selected_month, selected_cat, q, delete_mode)

\* the Month selectbox is set to another of its options
RunChangeMonth ==
    /\ FiltersShown
    /\ \E m \in MonthOptions(df) \ {selected_month} :
        Run(Plain("widget"), FALSE, m, selected_cat, q, delete_mode)

\* the Category selectbox is set to another of its options
RunChangeCat ==
    /\ FiltersShown
    /\ \E c \in CatOptions(df) \ {selected_cat} :
        Run(Plain("widget"), FALSE, selected_month, c, q, delete_mode)

\* the search text is edited
RunChangeQ ==
    /\ FiltersShown
    /\ \E t \in SearchTexts \ {q} :
        Run(Plain("widget"), FALSE, selected_month, selected_cat, t, delete_mode)

\* the "Delete mode" radio is set to another mode
RunChangeMode ==
    /\ ManageShown
    /\ \E mode \in DeleteModes \ {delete_mode} :
        Run(Plain("widget"), FALSE, selected_month, selected_cat, q, mode)

\* button "Delete by ID" with the number input at id (min_value = 1)
RunDeleteById ==
    /\ ManageShown
    /\ delete_mode = "By ID"
    /\ \E id \in 1..MaxRowid, fail \in BOOLEAN :
        Run(Ev("delete by id", NoDate, <<>>, 0, <<>>, {id}), fail,
            selected_month, selected_cat, q, delete_mode)

\* button "Delete selected" with the multiselect at sel, a choice among the
\* rowids of df_filtered
RunDeleteSelected ==
    /\ ManageShown
    /\ delete_mode = "Select multiple"
    /\ \E sel \in SUBSET RowIds(CurrentFiltered), fail \in BOOLEAN :
        /\ fail => sel # {}
        /\ Run(Ev("delete selected", NoDate, <<>>, 0, <<>>, sel), fail,
               selected_month, selected_cat, q, delete_mode)

\* button "Delete all expenses"
RunDeleteAll ==
    /\ ManageShown
    /\ delete_mode = "Delete all"
    /\ \E fail \in BOOLEAN :
        Run(Plain("delete all"), fail, selected_month, selected_cat, q, delete_mode)

\* the first run of a session over the table t: every widget at its default
FirstRun(t) ==
    LET snap == SelectRowidStar(t)
        filt == ApplyFilters(snap, All, All, <<>>)
    IN  /\ store = t
        /\ assigned = RowIds(t)
        /\ event = Plain("load")
        /\ failed = FALSE
        /\ exc = "none"
        /\ msg = "none"
        /\ backup_csv = <<>>
        /\ df = snap
        /\ selected_month = All
        /\ selected_cat = All
        /\ q = <<>>
        /\ delete_mode = "By ID"
        /\ df_filtered = filt
        /\ overview = Overview(filt)
        /\ chart = Chart(filt)
        /\ csv = FilteredCsv(filt)

\* CREATE TABLE IF NOT EXISTS on a new database file: the table is empty
Init == FirstRun(<<>>)

\* the ledger: adds and deletes, with the Category filter in use
Next ==
    \/ RunSample
    \/ RunBackup
    \/ RunSubmit
    \/ RunChangeCat
    \/ RunChangeMode
    \/ RunDeleteById
    \/ RunDeleteSelected
    \/ RunDeleteAll

Spec == Init /\ [][Next]_vars

-----------------------------------------------------------------------------
(* The views over a table left by earlier sessions *)

\* field values of rows as the add form and the sample button store them
ViewRows ==
    { [date |-> IsoFormat([year |-> 2024, month |-> 3, day |-> 5]),
       category |-> Food, amount |-> 2, note |-> Lunch],
      [date |-> IsoFormat([year |-> 2024, month |-> 3, day |-> 10]),
       category |-> Bills, amount |-> 1, note |-> Empty],
      [date |-> IsoFormat([year |-> 2024, month |-> 4, day |-> 1]),
       category |-> Food, amount |-> SampleAmount, note |-> SampleNote],
      [date |-> IsoFormat([year |-> 2023, month |-> 3, day |-> 5]),
       category |-> Transport, amount |-> 3, note |-> Bus] }

\* expenses.db as a session finds it: up to MaxRows rows, rowids ascending
ViewTables ==
    UNION { [1..n -> ViewRows] : n \in 0..MaxRows }

WithRowids(rows) ==
    [i \in 1..Len(rows) |->
        [rowid |-> i, date |-> rows[i].date, category |-> rows[i].category,
         amount |-> rows[i].amount, note |-> rows[i].note]]

InitView == \E rows \in ViewTables : FirstRun(WithRowids(rows))

\* the views: filters, search and downloads over an unchanging table
NextView ==
    \/ RunChangeMonth
    \/ RunChangeCat
    \/ RunChangeQ
    \/ RunBackup

SpecView == InitView /\ [][NextView]_vars

-----------------------------------------------------------------------------
(* Properties *)

Rows(t) == { t[i] : i \in 1..Len(t) }

DistinctRowids(t) == \A i, j \in 1..Len(t) : t[i].rowid = t[j].rowid => i = j

\* the rows of the next table under a rowid the table did not hold
NewRows == { r \in Rows(store') : r.rowid \notin RowIds(store) }

AddedNow == event'.kind \in {"sample", "submit"} /\ msg' \in {"Added", "Added sample expense"}

\* C1 (as claimed): a rowid that was once assigned to a record is never
\* assigned to a record added later, also after the first record was deleted.
C1_NeverReused == [][\A r \in NewRows : r.rowid \notin assigned]_vars

\* C1 (amended): a record added later gets a rowid that no record stored at
\* that moment has, so the stored records always have pairwise distinct
\* rowids; the rowid of a deleted record may be given out again.
C1_FreshAmongStored ==
    [][/\ AddedNow => /\ Cardinality(NewRows) = 1
                      /\ \A r \in NewRows : r.rowid \notin RowIds(store)
                      /\ RowIds(store) \subseteq RowIds(store')
       /\ DistinctRowids(store')]_vars

\* C1: a record was added after a record with a smaller rowid had been deleted
C1_Witness ==
    /\ event.kind \in {"sample", "submit"}
    /\ msg \in {"Added", "Added sample expense"}
    /\ Len(store) >= 2
    /\ \E id \in assigned \ RowIds(store) : id < MaxOf(RowIds(store))

\* C2: after an accepted add, queryAll returns the previous result followed by
\* exactly one record holding the supplied date, category, amount and note
\* under a rowid no earlier record has; the earlier records are unchanged.
C2_AddThenQueryAll ==
    [][(event'.kind = "submit" /\ ~Rejected(event'.amount) /\ ~failed') =>
        LET before == SelectRowidStar(store)
            new == df'[Len(df')]
        IN  /\ Len(df') = Len(before) + 1
            /\ SubSeq(df', 1, Len(before)) = before
            /\ new.date = IsoFormat(event'.date)
            /\ new.category = event'.category
            /\ new.amount = event'.amount
            /\ new.note = event'.note
            /\ new.rowid \notin RowIds(before)
            /\ SelectRowidStar(store') = df']_vars

\* C2: an accepted submission was added to a table that already held a record
C2_Witness ==
    /\ event.kind = "submit"
    /\ msg = "Added"
    /\ Len(df) >= 2
    /\ df[Len(df)].note = event.note

\* C3: a submission with amount <= 0 is answered with the validation warning,
\* runs no storage statement and leaves the table as it was.
C3_RejectedAdd ==
    [][(event'.kind = "submit" /\ event'.amount <= 0) =>
        /\ store' = store
        /\ assigned' = assigned
        /\ df' = SelectRowidStar(store)
        /\ msg' = "Amount must be positive."
        /\ ~failed']_vars

\* C3: a zero amount was submitted over a table holding records
C3_Witness ==
    /\ event.kind = "submit"
    /\ event.amount = 0
    /\ msg = "Amount must be positive."
    /\ store # <<>>

DeletedByIds(e, m) == (e.kind = "delete by id" /\ m = "Deleted ID")
                        \/ (e.kind = "delete selected" /\ m = "Deleted records")

\* C4: delete by id and delete selected remove exactly the stored records
\* whose rowid is targeted and leave every other record as it was; a targeted
\* rowid that is not stored is ignored, and the same delete repeated changes
\* nothing.
C4_DeleteExactly ==
    [][DeletedByIds(event', msg') =>
        /\ RowIds(store') = RowIds(store) \ event'.ids
        /\ Rows(store') \subseteq Rows(store)
        /\ Len(store') = Cardinality(RowIds(store'))
        /\ \A i, j \in 1..Len(store') : i < j => store'[i].rowid < store'[j].rowid
        /\ (event'.ids \cap RowIds(store) = {}) => store' = store
        /\ (DeletedByIds(event, msg) /\ event.ids = event'.ids) => store' = store
        /\ exc' = "none"]_vars

\* C4: one stored record was deleted by its id and another one was kept
C4_Witness ==
    /\ event.kind = "delete by id"
    /\ msg = "Deleted ID"
    /\ event.ids \subseteq RowIds(df)
    /\ store # <<>>

\* C5 (as claimed): a failing storage statement of an add or a delete is
\* caught by its handler and shown as a message; the run does not end with an
\* uncaught exception.
C5_StorageFailureCaught == failed => (exc = "none" /\ msg # "none")

\* the predicates of the filters, one record at a time
MonthOk(r) == selected_month = All \/ Take(r.date, 7) = selected_month
CatOk(r) == selected_cat = All \/ r.category = selected_cat
SearchOk(r) == q = <<>> \/ StrContains(r.note, q) \/ StrContains(r.category, q)

\* C6: df_filtered holds, in the order of df, exactly the records that pass
\* every active predicate (month: the first 7 characters of the date; category:
\* equality; "All" switches a predicate off); the predicates applied in any
\* order give the same result, and the snapshot df is left as fetched.
C6_FilterIsConjunction ==
    exc = "none" =>
        /\ df_filtered = SelectSeq(df, LAMBDA r : MonthOk(r) /\ CatOk(r) /\ SearchOk(r))
        /\ \A r \in Rows(df) :
            (q = <<>>) => (r \in Rows(df_filtered) <=> (MonthOk(r) /\ CatOk(r)))
        /\ df_filtered = MonthFilter(CatFilter(SearchFilter(df, q), selected_cat), selected_month)
        /\ df_filtered = CatFilter(SearchFilter(MonthFilter(df, selected_month), q), selected_cat)
        /\ df_filtered = CatFilter(MonthFilter(df, selected_month), selected_cat)
            \/ q # <<>>
        /\ df = SelectRowidStar(store)

\* C6: a month and a category are selected and some, not all, records pass
C6_Witness ==
    /\ exc = "none"
    /\ selected_month # All
    /\ selected_cat # All
    /\ df_filtered # <<>>
    /\ Len(df_filtered) < Len(MonthFilter(df, selected_month))
    /\ Len(df_filtered) < Len(CatFilter(df, selected_cat))

\* q occurs in s as it is written, up to case
OccursIn(s, text) ==
    \E k \in 0..(Len(s) - Len(text)) :
        \A j \in 1..Len(text) : Lower(text[j]) = Lower(s[k + j])

\* C7 (as claimed): for every non-empty search text, whatever its characters,
\* the run raises nothing and df_filtered holds exactly the records, among
\* those passing the month and category filters, in whose note or category
\* the text occurs literally up to case.
C7_LiteralSearch ==
    (q # <<>> /\ df # <<>>) =>
        /\ exc = "none"
        /\ df_filtered =
            SelectSeq(df, LAMBDA r : /\ MonthOk(r)
                                     /\ CatOk(r)
                                     /\ OccursIn(r.note, q) \/ OccursIn(r.category, q))

RECURSIVE SumOver(_, _)
SumOver(f, S) ==
    IF S = {} THEN 0
    ELSE LET c == CHOOSE x \in S : TRUE IN f[c] + SumOver(f, S \ {c})

\* C8: whenever records are shown, each category among them is one group of
\* the chart, a group's total is the sum of that category's amounts, the group
\* totals add up to the Total Spent metric, and Top Category is a group with
\* the largest total; with no record shown, neither metrics nor groups are
\* computed and "no data" is shown.
C8_Conservation ==
    exc = "none" =>
        IF df_filtered = <<>>
        THEN /\ overview.status = "info"
             /\ chart.status = "nodata"
             /\ chart.category_totals = <<>>
        ELSE LET g == chart.category_totals IN
             /\ overview.status = "metrics"
             /\ chart.status = "pie"
             /\ DOMAIN g = { r.category : r \in Rows(df_filtered) }
             /\ \A c \in DOMAIN g :
                    g[c] = SumOver([r \in Rows(df_filtered) |-> r.amount],
                                   { r \in Rows(df_filtered) : r.category = c })
             /\ SumOver(g, DOMAIN g) = overview.total
             /\ overview.total = SumOver([r \in Rows(df_filtered) |-> r.amount],
                                         Rows(df_filtered))
             /\ overview.transactions = Cardinality(Rows(df_filtered))
             /\ overview.top_cat \in DOMAIN g
             /\ \A c \in DOMAIN g : g[c] <= g[overview.top_cat]

\* C8: under a month filter, three records in two categories are shown
C8_Witness ==
    /\ exc = "none"
    /\ event.kind = "widget"
    /\ selected_month # All
    /\ overview.status = "metrics"
    /\ overview.transactions >= 3
    /\ Cardinality(DOMAIN chart.category_totals) = 2
    /\ \E c \in DOMAIN chart.category_totals :
        chart.category_totals[c] < overview.total - 1

\* the lines of a CSV are the header DfColumns and then, in order, the rowid
\* and the four columns of each record
HasIdsInOrder(text, rows) ==
    /\ Len(text) = Len(rows) + 1
    /\ text[1] = DfColumns
    /\ \A i \in 1..Len(rows) :
        text[i + 1] = <<rows[i].rowid, rows[i].date, rows[i].category,
                        rows[i].amount, rows[i].note>>

\* C9 (as claimed): the full backup and the filtered download both serialize
\* each given record with its id under the header
\* rowid,date,category,amount,note, one line per record, in the given order.
C9_ExportsCarryIds ==
    /\ (exc = "none" /\ df_filtered # <<>>) => HasIdsInOrder(csv, df_filtered)
    /\ event.kind = "backup" => HasIdsInOrder(backup_csv, df)

====
